---------------------------- MODULE Spec2Model ----------------------------
(***************************************************************************)
(* A model of isocpp_p1950::indirect_value<T, C, D> (src/indirect_value.h) *)
(* with T an integer type, C a copier carrying a small state and D a       *)
(* deleter carrying a small state.                                         *)
(*                                                                         *)
(* The heap is a table of allocations that are never reused, so that an    *)
(* allocation's identity survives its release and a second release of it   *)
(* is visible.  Every call of a member function is one step; the variable  *)
(* last records which call the step was, how it ended and what it          *)
(* returned.  Spec takes the calls that change the state, SpecAll these    *)
(* and the const observers, the relational operators and the hash.         *)
(***************************************************************************)
EXTENDS Integers, FiniteSets, Sequences, TLC

\* Number of allocations the heap can hand out in one run.
MaxAlloc == 3
\* Pointee values are 1..MaxVal.
MaxVal == 2
\* Releases of one allocation are counted up to this number.
MaxDel == 2

\* The client program declares two wrapper objects; every operation of the
\* class involves one or two of them.
Wrappers == {1, 2}
Allocs   == 1..MaxAlloc
Values   == 1..MaxVal
\* A copier or deleter object is in the state its default constructor gives
\* it (C{}, D{}) or in a state the caller gave it.
Policies == {"default", "custom"}
\* T* values: nullptr is 0.
nullptr  == 0

VARIABLES
  live,   \* live[w]: wrapper w is constructed and not yet destroyed
  ptr_,   \* ptr_[w]: the wrapper's T* ptr_
  c_,     \* c_[w]: the state of the copier held by copy_base
  d_,     \* d_[w]: the state of the deleter held by delete_base
  heap,   \* heap[a]: made, val (0 once destroyed), del (times a deleter ran on a)
  last    \* the call this step made: op, a, b, out, old, fresh, ncopy, ndel, res

vars == <<live, ptr_, c_, d_, heap, last>>

\* An allocation that operator new has not handed out yet.
Unused == [made |-> FALSE, val |-> 0, del |-> 0]

HasFresh(h) == \E a \in Allocs : ~h[a].made

Fresh(h) == CHOOSE a \in Allocs : ~h[a].made /\ \A b \in Allocs : b < a => h[b].made

\* new T(v): the heap after the allocation Fresh(h) was constructed with value v.
New(h, v) == [h EXCEPT ![Fresh(h)] = [made |-> TRUE, val |-> v, del |-> 0]]

\* A copier that returns new T(1) whatever the pointee holds.
default_copy_ignores_value(h, p) == New(h, 1)

\* default_copy<T>::operator(): new T(t) for the pointee at p.
default_copy(h, p) == New(h, h[p].val)

\* std::default_delete<T>::operator()(p): delete p.  The pointee is destroyed
\* and the allocation released; dp is the state of the deleter that runs.
Delete(h, p, dp) ==
  [h EXCEPT ![p].del = IF @ < MaxDel THEN @ + 1 ELSE MaxDel, ![p].val = 0]

\* The record a call leaves in last.
Call(op, a, b, out, old, fresh, ncopy, ndel, res) ==
  [op |-> op, a |-> a, b |-> b, out |-> out, old |-> old, fresh |-> fresh,
   ncopy |-> ncopy, ndel |-> ndel, res |-> res]

\* A reset() that forgets the allocation without calling the deleter.
reset_without_delete(h, p, dp) == [ptr |-> nullptr, heap |-> h, ndel |-> 0]

\* indirect_value::reset(): the deleter runs on a non-null ptr_, after ptr_
\* has been set to nullptr.
reset(h, p, dp) ==
  IF p # nullptr
    THEN [ptr |-> nullptr, heap |-> Delete(h, p, dp), ndel |-> 1]
    ELSE [ptr |-> p, heap |-> h, ndel |-> 0]

\* A make_raw_copy() that returns the source's own pointer.
make_raw_copy_shallow(h, p) == [ptr |-> p, heap |-> h, ncopy |-> 0]

\* indirect_value::make_raw_copy(), when the copier returns: ptr_ ? get_c()(*ptr_) : nullptr.
make_raw_copy(h, p) ==
  IF p # nullptr
    THEN [ptr |-> Fresh(h), heap |-> default_copy(h, p), ncopy |-> 1]
    ELSE [ptr |-> nullptr, heap |-> h, ncopy |-> 0]

\* A guard that is a plain T*: nothing releases the copy when it dies.
guard_dtor_leaks(h, p, dp) == [heap |-> h, ndel |-> 0]

\* The guard make_guarded_copy() returns: a unique_ptr over the copy whose deleter
\* is a reference to the source's deleter.  This is its destructor.
guard_dtor(h, p, dp) ==
  IF p # nullptr
    THEN [heap |-> Delete(h, p, dp), ndel |-> 1]
    ELSE [heap |-> h, ndel |-> 0]

\* The calls of make_raw_copy() that can be made: the copier is only invoked on
\* a non-empty source, and a returning copier needs an allocation.
CanCopy(s, throws) ==
  IF throws THEN ptr_[s] # nullptr
            ELSE ptr_[s] # nullptr => HasFresh(heap)

Init ==
  /\ live = [w \in Wrappers |-> FALSE]
  /\ ptr_ = [w \in Wrappers |-> nullptr]
  /\ c_   = [w \in Wrappers |-> "default"]
  /\ d_   = [w \in Wrappers |-> "default"]
  /\ heap = [a \in Allocs |-> Unused]
  /\ last = Call("none", 0, 0, "ok", nullptr, nullptr, 0, 0, <<>>)

\* indirect_value() = default;
DefaultConstruct(w) ==
  /\ ~live[w]
  /\ live' = [live EXCEPT ![w] = TRUE]
  /\ ptr_' = [ptr_ EXCEPT ![w] = nullptr]
  /\ c_'   = [c_ EXCEPT ![w] = "default"]
  /\ d_'   = [d_ EXCEPT ![w] = "default"]
  /\ heap' = heap
  /\ last' = Call("DefaultConstruct", w, w, "ok", nullptr, nullptr, 0, 0, <<>>)

\* indirect_value(std::in_place_t, Ts&&...): ptr_(new T(ts...)).  When T's
\* constructor throws no wrapper and no allocation exist.
InPlaceConstruct(w, v, out) ==
  /\ ~live[w]
  /\ out \in {"ok", "new_throws"}
  /\ IF out = "ok"
       THEN /\ HasFresh(heap)
            /\ live' = [live EXCEPT ![w] = TRUE]
            /\ ptr_' = [ptr_ EXCEPT ![w] = Fresh(heap)]
            /\ c_'   = [c_ EXCEPT ![w] = "default"]
            /\ d_'   = [d_ EXCEPT ![w] = "default"]
            /\ heap' = New(heap, v)
            /\ last' = Call("InPlaceConstruct", w, w, out, nullptr, Fresh(heap), 0, 0, <<>>)
       ELSE /\ UNCHANGED <<live, ptr_, c_, d_, heap>>
            /\ last' = Call("InPlaceConstruct", w, w, out, nullptr, nullptr, 0, 0, <<>>)

\* indirect_value(U* u, C c, D d) noexcept.  The caller passes u = nullptr
\* (v = 0) or a pointer it has just obtained from new T(v), which no wrapper owns.
AdoptConstruct(w, v, c, d) ==
  /\ ~live[w]
  /\ v # 0 => HasFresh(heap)
  /\ LET u == IF v = 0 THEN nullptr ELSE Fresh(heap) IN
     /\ live' = [live EXCEPT ![w] = TRUE]
     /\ ptr_' = [ptr_ EXCEPT ![w] = u]
     /\ c_'   = [c_ EXCEPT ![w] = c]
     /\ d_'   = [d_ EXCEPT ![w] = d]
     /\ heap' = IF v = 0 THEN heap ELSE New(heap, v)
     /\ last' = Call("AdoptConstruct", w, w, "ok", nullptr, u, 0, 0, <<>>)

\* A copy constructor that takes the source's pointer, as the move constructor does.
CopyConstruct_steals(w, i, out) ==
  /\ ~live[w] /\ live[i]
  /\ out = "ok"
  /\ live' = [live EXCEPT ![w] = TRUE]
  /\ c_'   = [c_ EXCEPT ![w] = c_[i]]
  /\ d_'   = [d_ EXCEPT ![w] = d_[i]]
  /\ ptr_' = [ptr_ EXCEPT ![w] = ptr_[i], ![i] = nullptr]
  /\ heap' = heap
  /\ last' = Call("CopyConstruct", w, i, out, nullptr, nullptr, 0, 0, <<>>)

\* indirect_value(const indirect_value& i)
\*   : copy_base(i.get_c()), delete_base(i.get_d()), ptr_(i.make_raw_copy()).
\* An exception from either policy's copy constructor or from the copier
\* leaves no new wrapper.
CopyConstruct(w, i, out) ==
  /\ ~live[w] /\ live[i]
  /\ out \in {"ok", "ctor_c_throws", "ctor_d_throws", "copier_throws"}
  /\ out \in {"ok", "copier_throws"} => CanCopy(i, out = "copier_throws")
  /\ IF out = "ok"
       THEN LET g == make_raw_copy(heap, ptr_[i]) IN
            /\ live' = [live EXCEPT ![w] = TRUE]
            /\ c_'   = [c_ EXCEPT ![w] = c_[i]]
            /\ d_'   = [d_ EXCEPT ![w] = d_[i]]
            /\ ptr_' = [ptr_ EXCEPT ![w] = g.ptr]
            /\ heap' = g.heap
            /\ last' = Call("CopyConstruct", w, i, out, nullptr, g.ptr, g.ncopy, 0, <<>>)
       ELSE /\ UNCHANGED <<live, ptr_, c_, d_, heap>>
            /\ last' = Call("CopyConstruct", w, i, out, nullptr, nullptr,
                            IF out = "copier_throws" THEN 1 ELSE 0, 0, <<>>)

\* A move constructor that leaves the source's ptr_ as it was.
MoveConstruct_keeps_source(w, i) ==
  /\ ~live[w] /\ live[i]
  /\ live' = [live EXCEPT ![w] = TRUE]
  /\ c_'   = [c_ EXCEPT ![w] = c_[i]]
  /\ d_'   = [d_ EXCEPT ![w] = d_[i]]
  /\ ptr_' = [ptr_ EXCEPT ![w] = ptr_[i]]
  /\ heap' = heap
  /\ last' = Call("MoveConstruct", w, i, "ok", nullptr, nullptr, 0, 0, <<>>)

\* indirect_value(indirect_value&& i) noexcept
\*   : copy_base(std::move(i)), delete_base(std::move(i)),
\*     ptr_(std::exchange(i.ptr_, nullptr)).
\* A policy is a scalar state: moving from it leaves it as it was.
MoveConstruct(w, i) ==
  /\ ~live[w] /\ live[i]
  /\ live' = [live EXCEPT ![w] = TRUE]
  /\ c_'   = [c_ EXCEPT ![w] = c_[i]]
  /\ d_'   = [d_ EXCEPT ![w] = d_[i]]
  /\ ptr_' = [ptr_ EXCEPT ![w] = ptr_[i], ![i] = nullptr]
  /\ heap' = heap
  /\ last' = Call("MoveConstruct", w, i, "ok", nullptr, nullptr, 0, 0, <<>>)

\* operator=(const indirect_value&) from reset() on, temp_guard holding the copy:
\*   reset();
\*   copy_base::operator=(i);                   -- may throw: ptr_ is null
\*   delete_base::operator=(i);                 -- may throw: ptr_ is null
\*   ptr_ = temp_guard.release();
\* A policy whose assignment threw is left in its old state (kept) or in its
\* new one.  The guard's deleter is a reference to i's deleter, read when the
\* guard dies.
CopyAssignCommit(t, i, out, kept) ==
  LET g  == make_raw_copy(heap, ptr_[i])
      r  == reset(g.heap, ptr_[t], d_[t])
      nc == IF out = "assign_c_throws" /\ kept THEN c_ ELSE [c_ EXCEPT ![t] = c_[i]]
      nd == IF out = "assign_c_throws" \/ (out = "assign_d_throws" /\ kept)
              THEN d_ ELSE [d_ EXCEPT ![t] = d_[i]]
      x  == guard_dtor(r.heap, g.ptr, nd[i])
  IN
  /\ c_' = nc
  /\ d_' = nd
  /\ IF out = "ok"
       THEN /\ ptr_' = [ptr_ EXCEPT ![t] = g.ptr]
            /\ heap' = r.heap
            /\ last' = Call("CopyAssign", t, i, out, ptr_[t], g.ptr,
                            g.ncopy, r.ndel, <<>>)
       ELSE /\ ptr_' = [ptr_ EXCEPT ![t] = r.ptr]
            /\ heap' = x.heap
            /\ last' = Call("CopyAssign", t, i, out, ptr_[t], g.ptr,
                            g.ncopy, r.ndel + x.ndel, <<>>)

\* The outcomes of t = i; kept only tells apart the two states a policy can be
\* left in by an assignment of it that threw.
CopyAssignCalls(t, i, out, kept) ==
  /\ live[t] /\ live[i]
  /\ out \in {"ok", "copier_throws", "assign_c_throws", "assign_d_throws"}
  /\ kept => out \in {"assign_c_throws", "assign_d_throws"}
  /\ CanCopy(i, out = "copier_throws")

\* A copy assignment that calls reset() before it makes the copy.
CopyAssign_reset_first(t, i, out, kept) ==
  /\ CopyAssignCalls(t, i, out, kept)
  /\ live' = live
  /\ IF out = "copier_throws"
       THEN LET r == reset(heap, ptr_[t], d_[t]) IN
            /\ t # i
            /\ ptr_' = [ptr_ EXCEPT ![t] = r.ptr]
            /\ heap' = r.heap
            /\ UNCHANGED <<c_, d_>>
            /\ last' = Call("CopyAssign", t, i, out, ptr_[t], nullptr, 1, r.ndel, <<>>)
       ELSE CopyAssignCommit(t, i, out, kept)

\* indirect_value& operator=(const indirect_value& i):
\*   auto temp_guard = i.make_guarded_copy();   -- may throw: *this unchanged
\*   reset(); ... ptr_ = temp_guard.release();  -- CopyAssignCommit
CopyAssign(t, i, out, kept) ==
  /\ CopyAssignCalls(t, i, out, kept)
  /\ live' = live
  /\ IF out = "copier_throws"
       THEN /\ UNCHANGED <<ptr_, c_, d_, heap>>
            /\ last' = Call("CopyAssign", t, i, out, ptr_[t], nullptr, 1, 0, <<>>)
       ELSE CopyAssignCommit(t, i, out, kept)

\* A move assignment without the test this != &i.
MoveAssign_no_self_test(t, i) ==
  /\ live[t] /\ live[i]
  /\ live' = live
  /\ LET r == reset(heap, ptr_[t], d_[t])
         p == [ptr_ EXCEPT ![t] = r.ptr]
     IN
     /\ c_'   = [c_ EXCEPT ![t] = c_[i]]
     /\ d_'   = [d_ EXCEPT ![t] = d_[i]]
     /\ ptr_' = [p EXCEPT ![t] = p[i], ![i] = nullptr]
     /\ heap' = r.heap
     /\ last' = Call("MoveAssign", t, i, "ok", ptr_[t], nullptr, 0, r.ndel, <<>>)

\* indirect_value& operator=(indirect_value&& i) noexcept:
\*   if (this != &i) { reset(); copy_base::operator=(std::move(i));
\*     delete_base::operator=(std::move(i)); ptr_ = std::exchange(i.ptr_, nullptr); }
MoveAssign(t, i) ==
  /\ live[t] /\ live[i]
  /\ live' = live
  /\ IF t # i
       THEN LET r == reset(heap, ptr_[t], d_[t]) IN
            /\ c_'   = [c_ EXCEPT ![t] = c_[i]]
            /\ d_'   = [d_ EXCEPT ![t] = d_[i]]
            /\ ptr_' = [ptr_ EXCEPT ![t] = ptr_[i], ![i] = nullptr]
            /\ heap' = r.heap
            /\ last' = Call("MoveAssign", t, i, "ok", ptr_[t], nullptr, 0, r.ndel, <<>>)
       ELSE /\ UNCHANGED <<ptr_, c_, d_, heap>>
            /\ last' = Call("MoveAssign", t, i, "ok", ptr_[t], nullptr, 0, 0, <<>>)

\* ~indirect_value() { reset(); }
Destroy(w) ==
  /\ live[w]
  /\ LET r == reset(heap, ptr_[w], d_[w]) IN
     /\ live' = [live EXCEPT ![w] = FALSE]
     /\ ptr_' = [ptr_ EXCEPT ![w] = r.ptr]
     /\ heap' = r.heap
     /\ last' = Call("Destroy", w, w, "ok", ptr_[w], nullptr, 0, r.ndel, <<>>)
  \* the policies die with the wrapper
  /\ c_' = [c_ EXCEPT ![w] = "default"]
  /\ d_' = [d_ EXCEPT ![w] = "default"]

\* A swap that exchanges the copiers and the pointers but not the deleters.
Swap_without_deleters(a, b, out) ==
  /\ live[a] /\ live[b]
  /\ out \in {"ok", "swap_c_throws"}
  /\ live' = live
  /\ heap' = heap
  /\ d_' = d_
  /\ c_' = IF out = "ok" THEN [c_ EXCEPT ![a] = c_[b], ![b] = c_[a]] ELSE c_
  /\ ptr_' = IF out = "ok" THEN [ptr_ EXCEPT ![a] = ptr_[b], ![b] = ptr_[a]] ELSE ptr_
  /\ last' = Call("Swap", a, b, out, ptr_[a], nullptr, 0, 0, <<>>)

\* void swap(indirect_value& rhs):
\*   swap(get_c(), rhs.get_c()); swap(get_d(), rhs.get_d()); swap(ptr_, rhs.ptr_);
\* A policy's swap may throw; the later swaps are then not made.
Swap(a, b, out) ==
  /\ live[a] /\ live[b]
  /\ out \in {"ok", "swap_c_throws", "swap_d_throws"}
  /\ live' = live
  /\ heap' = heap
  /\ c_' = IF out = "swap_c_throws" THEN c_
           ELSE [c_ EXCEPT ![a] = c_[b], ![b] = c_[a]]
  /\ d_' = IF out = "ok" THEN [d_ EXCEPT ![a] = d_[b], ![b] = d_[a]] ELSE d_
  /\ ptr_' = IF out = "ok" THEN [ptr_ EXCEPT ![a] = ptr_[b], ![b] = ptr_[a]] ELSE ptr_
  /\ last' = Call("Swap", a, b, out, ptr_[a], nullptr, 0, 0, <<>>)


\* A call that leaves every wrapper and the heap as they are.
Query(op, a, b, out, res) ==
  /\ UNCHANGED <<live, ptr_, c_, d_, heap>>
  /\ last' = Call(op, a, b, out, ptr_[a], nullptr, 0, 0, res)

\* *ptr_ of a wrapper that has a value.
Val(w) == heap[ptr_[w]].val

\* explicit operator bool() / has_value(): ptr_ != nullptr.
has_value(w) == ptr_[w] # nullptr

HasValue(w) ==
  /\ live[w]
  /\ Query("has_value", w, w, "ok", <<has_value(w)>>)

\* T* operator->() noexcept { return ptr_; }
Arrow(w) ==
  /\ live[w]
  /\ Query("operator->", w, w, "ok", <<ptr_[w]>>)

\* T& operator*() & used to write the pointee: *w = v.  On an
\* empty wrapper this is a write through nullptr, after which the program
\* makes no further step; such calls are left out.
Deref(w, v) ==
  /\ live[w] /\ ptr_[w] # nullptr
  /\ heap' = [heap EXCEPT ![ptr_[w]].val = v]
  /\ UNCHANGED <<live, ptr_, c_, d_>>
  /\ last' = Call("operator*", w, w, "ok", ptr_[w], nullptr, 0, 0, <<v>>)

\* T& value() &: if (!ptr_) throw bad_indirect_value_access(); return *ptr_;
Value(w) ==
  /\ live[w]
  /\ IF ptr_[w] = nullptr
       THEN Query("value", w, w, "bad_indirect_value_access", <<>>)
       ELSE Query("value", w, w, "ok", <<Val(w)>>)

\* copier_type& get_copier() noexcept { return get_c(); }
GetCopier(w) ==
  /\ live[w]
  /\ Query("get_copier", w, w, "ok", <<c_[w]>>)

\* deleter_type& get_deleter() noexcept { return get_d(); }
GetDeleter(w) ==
  /\ live[w]
  /\ Query("get_deleter", w, w, "ok", <<d_[w]>>)

\* Relational operators between two indirect_values, T being an integer type.
OpEq(lhs, rhs) ==
  LET leftHasValue == has_value(lhs)
  IN  leftHasValue = has_value(rhs) /\ (~leftHasValue \/ Val(lhs) = Val(rhs))

OpNe(lhs, rhs) ==
  LET leftHasValue == has_value(lhs)
  IN  leftHasValue # has_value(rhs) \/ (leftHasValue /\ Val(lhs) # Val(rhs))

\* An operator< that compares the pointees only when both wrappers have one.
OpLt_both_needed(lhs, rhs) ==
  has_value(lhs) /\ has_value(rhs) /\ Val(lhs) < Val(rhs)

OpLt(lhs, rhs) == has_value(rhs) /\ (~has_value(lhs) \/ Val(lhs) < Val(rhs))

OpGt(lhs, rhs) == has_value(lhs) /\ (~has_value(rhs) \/ Val(lhs) > Val(rhs))

OpLe(lhs, rhs) == ~has_value(lhs) \/ (has_value(rhs) /\ Val(lhs) <= Val(rhs))

OpGe(lhs, rhs) == ~has_value(rhs) \/ (has_value(lhs) /\ Val(lhs) >= Val(rhs))

\* One evaluation of each of ==, !=, <, >, <=, >= on (x, y).
Compare(x, y) ==
  /\ live[x] /\ live[y]
  /\ Query("compare", x, y, "ok",
           <<OpEq(x, y), OpNe(x, y), OpLt(x, y), OpGt(x, y), OpLe(x, y), OpGe(x, y)>>)

\* std::hash<T> of an integer, as the standard library computes it.
VTHash(v) == v

\* _conditionally_enabled_hash::operator(): key ? VTHash{}(*key) : 0.
Hash(key) ==
  /\ live[key]
  /\ Query("hash", key, key, "ok", <<IF has_value(key) THEN VTHash(Val(key)) ELSE 0>>)

\* How a call can end: by returning, or with the exception of the named step.
NewOutcomes    == {"ok", "new_throws"}
CopyOutcomes   == {"ok", "ctor_c_throws", "ctor_d_throws", "copier_throws"}
AssignOutcomes == {"ok", "copier_throws", "assign_c_throws", "assign_d_throws"}
SwapOutcomes   == {"ok", "swap_c_throws", "swap_d_throws"}

\* The calls that construct, assign, exchange or destroy a wrapper, and the
\* writes to a pointee: every call that changes the state.
Next ==
  \/ \E w \in Wrappers : DefaultConstruct(w)
  \/ \E w \in Wrappers, v \in Values, out \in NewOutcomes : InPlaceConstruct(w, v, out)
  \/ \E w \in Wrappers, v \in Values \cup {0}, c \in Policies, d \in Policies :
       AdoptConstruct(w, v, c, d)
  \/ \E w \in Wrappers, i \in Wrappers, out \in CopyOutcomes : CopyConstruct(w, i, out)
  \/ \E w \in Wrappers, i \in Wrappers : MoveConstruct(w, i)
  \/ \E t \in Wrappers, i \in Wrappers, out \in AssignOutcomes, kept \in BOOLEAN :
       CopyAssign(t, i, out, kept)
  \/ \E t \in Wrappers, i \in Wrappers : MoveAssign(t, i)
  \/ \E w \in Wrappers : Destroy(w)
  \/ \E a \in Wrappers, b \in Wrappers, out \in SwapOutcomes : Swap(a, b, out)
  \/ \E w \in Wrappers, v \in Values : Deref(w, v)

Spec == Init /\ [][Next]_vars

\* Every call of the class: those of Next and the const observers.
NextAll ==
  \/ Next
  \/ \E w \in Wrappers : GetCopier(w)
  \/ \E w \in Wrappers : GetDeleter(w)
  \/ \E w \in Wrappers : HasValue(w)
  \/ \E w \in Wrappers : Arrow(w)
  \/ \E w \in Wrappers : Value(w)
  \/ \E x \in Wrappers, y \in Wrappers : Compare(x, y)
  \/ \E key \in Wrappers : Hash(key)

SpecAll == Init /\ [][NextAll]_vars

-----------------------------------------------------------------------------
\* Shorthands for the claims.  In an action formula the primed last names the
\* call the step made, the unprimed variables the state before it.

Returned(op)  == last.op = op /\ last.out = "ok"
Returns(op)   == last'.op = op /\ last'.out = "ok"
Empty(w)      == ptr_[w] = nullptr
Released(a)   == heap[a].made /\ heap[a].del = 1
NoNewAlloc    == \A x \in Allocs : heap'[x].made = heap[x].made

\* C1: no two live wrappers hold the same non-null pointee, and every non-null
\* pointee of a live wrapper is an allocation that was made and not released.
C1_NoAliasing ==
  /\ \A x, y \in Wrappers :
       (x # y /\ live[x] /\ live[y] /\ ~Empty(x)) => ptr_[x] # ptr_[y]
  /\ \A w \in Wrappers :
       (live[w] /\ ~Empty(w)) => heap[ptr_[w]].made /\ heap[ptr_[w]].del = 0

\* Two wrappers with a value each, right after a copy assignment that released
\* the target's old allocation.
C1_Witness ==
  /\ Returned("CopyAssign") /\ last.a # last.b
  /\ last.old # nullptr /\ Released(last.old)
  /\ \A w \in Wrappers : live[w] /\ ~Empty(w)

\* C2: no allocation is passed to a deleter twice, and once no wrapper is
\* alive every allocation ever made has been passed to a deleter exactly once.
C2_ExactlyOnce ==
  /\ \A a \in Allocs : heap[a].del <= 1
  /\ (\A w \in Wrappers : ~live[w]) =>
        \A a \in Allocs : heap[a].made => heap[a].del = 1

\* Every wrapper destroyed after at least three allocations were made.
C2_Witness ==
  /\ last.op = "Destroy"
  /\ \A w \in Wrappers : ~live[w]
  /\ Cardinality({a \in Allocs : Released(a)}) >= 3

\* C3: when the copier throws in t = s, t keeps its allocation, value and
\* policies, no deleter has run on t's allocation, and s is unchanged.
C3_StrongGuarantee ==
  [][(last'.op = "CopyAssign" /\ last'.out = "copier_throws") =>
       LET t == last'.a
           s == last'.b
       IN  /\ live'[t] /\ ptr_'[t] = ptr_[t] /\ c_'[t] = c_[t] /\ d_'[t] = d_[t]
           /\ ~Empty(t) => heap'[ptr_[t]] = heap[ptr_[t]] /\ heap'[ptr_[t]].del = 0
           /\ live'[s] /\ ptr_'[s] = ptr_[s] /\ c_'[s] = c_[s] /\ d_'[s] = d_[s]
           /\ ~Empty(s) => heap'[ptr_[s]] = heap[ptr_[s]]
           /\ last'.ndel = 0]_vars

\* The copier threw while assigning to another wrapper that holds a value.
C3_Witness ==
  /\ last.op = "CopyAssign" /\ last.out = "copier_throws"
  /\ last.a # last.b /\ ~Empty(last.a) /\ ~Empty(last.b)

\* What C4 says of a copy assignment t = s that returned.
C4_Post(t, s) ==
  /\ Empty(s) => ptr_'[t] = nullptr
  /\ ~Empty(s) => /\ ptr_'[t] # nullptr
                  /\ heap'[ptr_'[t]].val = heap[ptr_[s]].val
                  /\ ptr_'[t] # ptr_'[s]
  /\ ptr_'[s] = ptr_[s]
  /\ ~Empty(s) => heap'[ptr_[s]] = heap[ptr_[s]]
  /\ ~Empty(t) => heap'[ptr_[t]].made /\ heap'[ptr_[t]].del = 1

\* C4 as stated: C4_Post for every copy assignment that returns, t = t included.
C4_Original ==
  [][Returns("CopyAssign") => C4_Post(last'.a, last'.b)]_vars

\* C4, amended: C4_Post for t = s with t and s distinct wrappers; for t = t the
\* wrapper stays empty, or holds a new allocation with the value it had while
\* the allocation it held has been released.
C4_CopyAssign ==
  [][Returns("CopyAssign") =>
       LET t == last'.a
           s == last'.b
       IN  IF t # s THEN C4_Post(t, s)
           ELSE /\ Empty(t) => ptr_'[t] = nullptr
                /\ ~Empty(t) => /\ ptr_'[t] \notin {nullptr, ptr_[t]}
                                /\ heap'[ptr_'[t]].val = heap[ptr_[t]].val
                                /\ heap'[ptr_'[t]].del = 0
                                /\ heap'[ptr_[t]].del = 1]_vars

\* A copy assignment between two wrappers that both held a value.
C4_Witness ==
  /\ Returned("CopyAssign") /\ last.a # last.b
  /\ last.old # nullptr /\ Released(last.old)
  /\ ~Empty(last.b) /\ ~Empty(last.a) /\ Val(last.a) = Val(last.b)

\* C5: a = a and a = std::move(a) that return (and a = a whose copier throws)
\* leave a as empty as it was and with the value it had; whatever the outcome,
\* no allocation has been released twice and a does not point at a released
\* allocation.  (What a = a leaves when a policy's assignment throws is C7.)
C5_SelfAssign ==
  [][(last'.op \in {"CopyAssign", "MoveAssign"} /\ last'.a = last'.b) =>
       LET a == last'.a
       IN  /\ last'.out \in {"ok", "copier_throws"} =>
                /\ live'[a]
                /\ ptr_'[a] = nullptr <=> ptr_[a] = nullptr
                /\ ~Empty(a) => heap'[ptr_'[a]].val = heap[ptr_[a]].val
           /\ \A x \in Allocs : heap'[x].del <= 1
           /\ ptr_'[a] # nullptr =>
                heap'[ptr_'[a]].made /\ heap'[ptr_'[a]].del = 0]_vars

\* A wrapper holding a value, after it was copy-assigned to itself.
C5_Witness ==
  /\ Returned("CopyAssign") /\ last.a = last.b
  /\ last.old # nullptr /\ Released(last.old) /\ ~Empty(last.a)

\* A wrapper holding a value, after it was move-assigned to itself.
C5_WitnessMove ==
  /\ Returned("MoveAssign") /\ last.a = last.b
  /\ last.old # nullptr /\ ptr_[last.a] = last.old

\* C6: after b(std::move(a)) and after b = std::move(a) with a, b distinct,
\* b holds the allocation a held (none if a was empty), untouched; a is empty;
\* the copier was not invoked and nothing was allocated; in the assignment the
\* allocation b held has been released.
C6_MoveTransfers ==
  [][((Returns("MoveConstruct") \/ Returns("MoveAssign")) /\ last'.a # last'.b) =>
       LET b == last'.a
           a == last'.b
       IN  /\ live'[b] /\ ptr_'[b] = ptr_[a]
           /\ ptr_'[a] = nullptr
           /\ ~Empty(a) => heap'[ptr_[a]] = heap[ptr_[a]]
           /\ last'.ncopy = 0 /\ NoNewAlloc
           /\ (last'.op = "MoveAssign" /\ ~Empty(b)) =>
                heap'[ptr_[b]].made /\ heap'[ptr_[b]].del = 1]_vars

\* A move assignment from a wrapper with a value into another one with a value.
C6_Witness ==
  /\ Returned("MoveAssign") /\ last.a # last.b
  /\ last.old # nullptr /\ Released(last.old)
  /\ ~Empty(last.a) /\ Empty(last.b)

\* What C7 says of t = s in which a policy's assignment threw, but for the source.
C7_Target(t, s) ==
  /\ live'[t] /\ ptr_'[t] = nullptr
  /\ ~Empty(t) => heap'[ptr_[t]].made /\ heap'[ptr_[t]].del = 1
  /\ last'.fresh # nullptr <=> ~Empty(s)
  /\ last'.fresh # nullptr =>
       /\ ~heap[last'.fresh].made
       /\ heap'[last'.fresh].made /\ heap'[last'.fresh].del = 1

\* The source s of the assignment is as it was.
C7_SourceUnchanged(s) ==
  /\ live'[s] /\ ptr_'[s] = ptr_[s] /\ c_'[s] = c_[s] /\ d_'[s] = d_[s]
  /\ ~Empty(s) => heap'[ptr_[s]] = heap[ptr_[s]]

PolicyAssignThrows ==
  last'.op = "CopyAssign" /\ last'.out \in {"assign_c_throws", "assign_d_throws"}

\* C7 as stated: target empty, old allocation and the copy released once each,
\* source unchanged, for every t = s, t = t included.
C7_Original ==
  [][PolicyAssignThrows =>
       C7_Target(last'.a, last'.b) /\ C7_SourceUnchanged(last'.b)]_vars

\* C7, amended: the target is left empty, its old allocation and the copy have
\* been released once each; the source is unchanged when it is another wrapper
\* than the target (in t = t the source is the target, and is left empty).
C7_PolicyAssignWindow ==
  [][PolicyAssignThrows =>
       /\ C7_Target(last'.a, last'.b)
       /\ last'.a # last'.b => C7_SourceUnchanged(last'.b)]_vars

\* The deleter's assignment threw in t = s, t and s both holding a value.
C7_Witness ==
  /\ last.op = "CopyAssign" /\ last.out = "assign_d_throws" /\ last.a # last.b
  /\ last.old # nullptr /\ Released(last.old)
  /\ last.fresh # nullptr /\ Released(last.fresh)
  /\ Empty(last.a) /\ ~Empty(last.b)

\* C8 as stated: the pointee of a live wrapper w changes only in a copy or move
\* assignment to w and in w's destruction.
C8_Original ==
  [][\A w \in Wrappers :
       (live[w] /\ ptr_'[w] # ptr_[w]) =>
         last'.op \in {"CopyAssign", "MoveAssign", "Destroy"} /\ last'.a = w]_vars

ReadOnlyOps ==
  {"CopyConstruct", "has_value", "operator->", "operator*", "value",
   "get_copier", "get_deleter", "compare", "hash"}

\* C8, amended: the pointee of a live wrapper w changes only in a copy or move
\* assignment to w, in w's destruction, in a move construction or move
\* assignment from w, and in a swap with w; being the source of a copy,
\* dereference, value(), the emptiness queries, the policy accessors,
\* comparison and hashing leave every pointee as it is.
C8_PointeeFrame ==
  [][/\ \A w \in Wrappers :
          (live[w] /\ ptr_'[w] # ptr_[w]) =>
            \/ last'.op \in {"CopyAssign", "MoveAssign", "Destroy"} /\ last'.a = w
            \/ last'.op \in {"MoveConstruct", "MoveAssign"} /\ last'.b = w
            \/ last'.op = "Swap" /\ w \in {last'.a, last'.b}
     /\ last'.op \in ReadOnlyOps =>
          \A w \in Wrappers : live[w] => ptr_'[w] = ptr_[w]]_vars

\* A swap that changed both pointees.
C8_Witness ==
  /\ Returned("Swap") /\ last.a # last.b
  /\ ptr_[last.a] # last.old /\ ptr_[last.b] = last.old

\* Option-like key of a wrapper: 0 for empty, below every value.
Key(w) == IF ptr_[w] = nullptr THEN 0 ELSE heap[ptr_[w]].val

\* C9: ==, !=, <, >, <=, >= on two wrappers return what the empty-first order
\* on Key returns, and are consistent with each other.
C9_EmptyFirstOrder ==
  /\ last.op = "compare" =>
       LET x == last.a
           y == last.b
       IN  last.res = <<Key(x) = Key(y), Key(x) # Key(y), Key(x) < Key(y),
                        Key(x) > Key(y), Key(x) <= Key(y), Key(x) >= Key(y)>>
  /\ \A x, y \in Wrappers :
       (live[x] /\ live[y]) =>
         /\ OpNe(x, y) = ~OpEq(x, y)
         /\ OpGt(x, y) = OpLt(y, x)
         /\ OpLe(x, y) = ~OpLt(y, x)
         /\ OpGe(x, y) = ~OpLt(x, y)
         /\ (Empty(x) /\ ~Empty(y)) => OpLt(x, y) /\ ~OpLt(y, x)
         /\ (Empty(x) /\ Empty(y)) => OpEq(x, y) /\ ~OpLt(x, y)

\* An empty wrapper was compared with one holding a value.
C9_Witness ==
  /\ last.op = "compare" /\ Empty(last.a) /\ ~Empty(last.b)
  /\ last.res = <<FALSE, TRUE, TRUE, FALSE, TRUE, FALSE>>

\* C10: a swap that returns exchanges the pointees and the policies of a and b
\* (a.swap(a) changes nothing); no copier and no deleter is invoked, nothing
\* is allocated and no allocation is touched.
C10_Swap ==
  [][Returns("Swap") =>
       LET a == last'.a
           b == last'.b
       IN  /\ ptr_'[a] = ptr_[b] /\ ptr_'[b] = ptr_[a]
           /\ c_'[a] = c_[b] /\ c_'[b] = c_[a]
           /\ d_'[a] = d_[b] /\ d_'[b] = d_[a]
           /\ heap' = heap /\ live' = live
           /\ last'.ncopy = 0 /\ last'.ndel = 0]_vars

\* Two wrappers with a value each and different policies were swapped.
C10_Witness ==
  /\ Returned("Swap") /\ last.a # last.b
  /\ ~Empty(last.a) /\ ~Empty(last.b)
  /\ Val(last.a) # Val(last.b)
  /\ c_[last.a] # c_[last.b] /\ d_[last.a] # d_[last.b]

=============================================================================
